---- MODULE Spec2Model ----
(***************************************************************************)
(* The mood server (src/server.js): the PushSubscription and Mood          *)
(* collections, the HTTP handlers that read and write them, and the push   *)
(* fan-out sendNotificationToAll.                                          *)
(*                                                                         *)
(* Node runs every handler on one thread: the code between two awaits is   *)
(* one atomic step, and an awaited operation (a MongoDB operation, a       *)
(* web-push delivery) settles in a later step, interleaved with the steps  *)
(* of every other request in flight.  Each action below is one such step:  *)
(* the settling of the awaited operation together with the code that runs  *)
(* up to the next await.                                                   *)
(***************************************************************************)
EXTENDS Integers, Sequences, FiniteSets, TLC

\* ------------------------------------------------------------------ bounds
\* Multi-step requests (POST /api/mood/set, POST /api/send-test-notification)
\* the clients issue in one behaviour.
MaxRequests == 2
\* Largest value of Date.now() (milliseconds, as a logical clock).
MaxClock == 1
\* Largest age, in seconds, of the event getTimeAgo is applied to: two days
\* and two hours.
MaxAgeSeconds == 180000

\* Two multi-step requests are in flight at a time, each in a slot; a slot is
\* taken again once its request has answered and all its deliveries settled.
Slots == {1, 2}

\* ------------------------------------------------------------ input values
Undefined == "undefined"          \* a field the request body lacks (falsy)
Endpoints == {"e1", "e2"}
KeyValues == {"k1", "k2"}         \* opaque {p256dh, auth} pairs
UserIds == {"u1"}
EmojiValues == {"E1", "E2"}

\* moodSchema.mood.enum
MoodEnum ==
  {"happy", "excited", "loved", "calm", "sad", "tired", "stressed", "angry", "silly"}

\* The moods the clients send: two of the enum, one outside it, and none.
MoodInputs == {"happy", "silly", "bored", Undefined}
EmojiInputs == EmojiValues \cup {Undefined}

SubscribeBodies ==
  [endpoint : Endpoints \cup {Undefined},
   keys : KeyValues \cup {Undefined},
   userId : UserIds \cup {Undefined}]

MoodBodies == [mood : MoodInputs, emoji : EmojiInputs]

\* web-push outcomes: 201 delivered; 404 and 410 the endpoint is gone;
\* 500 any other (transient) failure.
DeliveryCodes == {201, 404, 410, 500}

Falsy(v) == v = Undefined

VARIABLES
  store,      \* the PushSubscription collection: a set of documents
  moods,      \* the Mood collection, in insertion order
  clock,      \* Date.now()
  emitted,    \* the 'mood-updated' events io.emit has broadcast, in order
  req,        \* the multi-step requests, by slot
  issued,     \* the number of multi-step requests issued so far
  response,   \* the response of the last single-step request
  client,     \* a page of the app: its PushNotificationManager, its browser
  sw          \* the service worker of that browser

vars == <<store, moods, clock, emitted, req, issued, response, client, sw>>

\* What a step of the server leaves alone.
ServerFrame == UNCHANGED <<client, sw>>

\* --------------------------------------------------------------- documents
NoDoc == [mood |-> Undefined, emoji |-> Undefined, timestamp |-> 0, userId |-> Undefined]

\* "mood": null in a response
NullMood == [mood |-> Undefined, emoji |-> Undefined, timestamp |-> 0]

NoResults == [successful |-> 0, failed |-> 0, errors |-> <<>>]

\* emit: whether io.emit has broadcast the request's event ("sent") or thrown
\* ("threw"); notified: whether sendMoodUpdateNotification has been called.
IdleReq ==
  [pc |-> "idle", kind |-> "none", doc |-> NoDoc, saved |-> FALSE, task |-> <<>>,
   disp |-> "none", results |-> NoResults, status |-> 0,
   emit |-> "none", notified |-> FALSE]

\* A timeAgo text: 'Just now' (n is 0), or `${n} ${unit} ago`.  In a response,
\* limit is the limit parameter of the request it answers.
JustNow == [n |-> 0, unit |-> "Just now"]

NoResponse ==
  [op |-> "none", status |-> 0, success |-> FALSE, mood |-> NullMood,
   timeAgo |-> JustNow, history |-> <<>>, limit |-> <<>>]

Reply(op, status) ==
  [op |-> op, status |-> status, success |-> (status = 200), mood |-> NullMood,
   timeAgo |-> JustNow, history |-> <<>>, limit |-> <<>>]

\* null, of a subscription
Null == "null"

\* The page before DOMContentLoaded: the manager as its constructor leaves
\* it, the controls as the markup shows them ("initial").  In the browser:
\* pushSubscription, the push subscription of the registration, and
\* permission, Notification.permission.  pc is where subscribe() or
\* unsubscribe() stands, result what the last of them returned; prior is the
\* state subscribe() was called in, cancelled what subscription.unsubscribe()
\* of the last unsubscribe() answered, and removal whether that unsubscribe()
\* has sent its POST /api/unsubscribe.
NewPage ==
  [loaded |-> FALSE, registration |-> FALSE, vapidPublicKey |-> FALSE,
   subscription |-> Null, ui |-> "initial",
   subscribeDisabled |-> FALSE, unsubscribeDisabled |-> FALSE,
   pushSubscription |-> Null, permission |-> "default",
   pc |-> "idle", op |-> "none", result |-> "none",
   prior |-> [subscription |-> Null, pushSubscription |-> Null, ui |-> "initial"],
   cancelled |-> "none", removal |-> FALSE]

\* An event the worker is not handling.  phase: "none", "running" from the
\* dispatch of the event, "handled" once its listener has returned and every
\* promise it passed to waitUntil or respondWith has settled; pending: the
\* asynchronous work the listener started that has not completed; extended:
\* the part of it the event waits for.
NoEvent == [phase |-> "none", pending |-> {}, extended |-> {}]

EventTypes == {"install", "activate", "fetch", "push", "notificationclick", "sync", "message"}

NoRequest == [method |-> "GET", origin |-> "none", path |-> "", destination |-> ""]

\* The push listener's notificationData before the payload is read.
DefaultNotification ==
  [title |-> "Mood Tracker", body |-> "Time to update your mood!",
   icon |-> "/icon-192x192.png", badge |-> "/icon-192x192.png",
   tag |-> "mood-update", data |-> [url |-> "/"]]

NotificationFields == {"title", "body", "icon", "badge", "tag", "data"}

\* A payload that event.data.json() parses to an object: `has` names the
\* properties the object has, val gives their values (and a value that is not
\* read for a property it lacks).  A data without url stands for data: {} and
\* data: null alike.
Object(has, val) == [has |-> has, val |-> val]

NoObject == Object({}, DefaultNotification)

\* event.data of a push event: null (present FALSE), or a message with its
\* text(), and, when json() does not throw (parses), what json() returns.
NoData == [present |-> FALSE, text |-> "", parses |-> FALSE, json |-> NoObject]

NoClick ==
  [tag |-> "none", url |-> Undefined, action |-> "", closed |-> FALSE,
   focused |-> <<>>, opened |-> <<>>]

\* The service worker script, not yet run, in a browser whose Cache Storage
\* holds `buckets` (name to the set of paths cached in it).  state is
\* ServiceWorker.state; skipWaiting the skip-waiting flag; claimed whether
\* clients.claim() has taken effect, claimedPurged whether the purge of
\* activate had completed when it did; before the names of the buckets when
\* activate was dispatched and toDelete those whose caches.delete is out;
\* request, the request of the fetch event, and answer, what its page gets;
\* replied, whether the message listener posted its reply; data, the
\* event.data of the push event, rendered, the showNotification calls of its
\* listener, and displayed, the notifications
\* on display; windows, the URLs of the open windows, in the order of
\* clients.matchAll; click, the notification and action of the
\* notificationclick event and what its listener closed, focused (windows, by
\* position) and opened (URLs).
WorkerWith(buckets) ==
  [state |-> "parsed", skipWaiting |-> FALSE, caches |-> buckets,
   claimed |-> FALSE, claimedPurged |-> FALSE, before |-> {}, toDelete |-> {},
   ev |-> [t \in EventTypes |-> NoEvent],
   request |-> NoRequest, answer |-> "none", replied |-> FALSE,
   data |-> NoData, rendered |-> <<>>, displayed |-> {}, windows |-> <<>>,
   click |-> NoClick]

NewWorker == WorkerWith(<<>>)

Init ==
  /\ store = {}
  /\ moods = <<>>
  /\ clock = 0
  /\ emitted = <<>>
  /\ req = [s \in Slots |-> IdleReq]
  /\ issued = 0
  /\ response = NoResponse
  /\ client = NewPage
  /\ sw = NewWorker

\* ------------------------------------------------- the subscription store
Matching(s, endpoint) == {r \in s : r.endpoint = endpoint}

\* PushSubscription.findOneAndUpdate({endpoint}, {endpoint, keys, userId},
\* {upsert: true, new: true}).  Update validators do not run.  An undefined
\* keys in the update is either dropped from the update (the stored keys stay)
\* or written as null, depending on the Mongoose version: `strip` says which.
UpsertInsertsAlways(s, endpoint, keys, userId, strip) ==
  s \cup {[endpoint |-> endpoint, keys |-> keys, userId |-> userId]}

FindOneAndUpdate(s, endpoint, keys, userId, strip) ==
  IF Matching(s, endpoint) = {}
  THEN s \cup {[endpoint |-> endpoint, keys |-> keys, userId |-> userId]}
  ELSE LET old == CHOOSE r \in Matching(s, endpoint) : TRUE
           new == [endpoint |-> endpoint,
                   keys |-> IF keys = Undefined /\ strip THEN old.keys ELSE keys,
                   userId |-> userId]
       IN (s \ {old}) \cup {new}

\* PushSubscription.deleteOne({endpoint}): removes at most one document.
DeleteOneRemovesNothing(s, endpoint) == s

DeleteOne(s, endpoint) ==
  IF Matching(s, endpoint) = {}
  THEN s
  ELSE s \ {CHOOSE r \in Matching(s, endpoint) : TRUE}

\* req.body.userId || 'default'
OwnerOf(body) == IF Falsy(body.userId) THEN "default" ELSE body.userId

\* POST /api/subscribe
Subscribe(body, dbOk, strip) ==
  /\ IF Falsy(body.endpoint)
     THEN /\ response' = Reply("subscribe", 400)
          /\ store' = store
     ELSE IF ~dbOk
     THEN /\ response' = Reply("subscribe", 500)
          /\ store' = store
     ELSE /\ store' = FindOneAndUpdate(store, body.endpoint, body.keys, OwnerOf(body), strip)
          /\ response' = Reply("subscribe", 200)
  /\ UNCHANGED <<moods, clock, emitted, req, issued>>

\* POST /api/unsubscribe
Unsubscribe(endpoint, dbOk) ==
  /\ IF Falsy(endpoint)
     THEN /\ response' = Reply("unsubscribe", 400)
          /\ store' = store
     ELSE IF ~dbOk
     THEN /\ response' = Reply("unsubscribe", 500)
          /\ store' = store
     ELSE /\ store' = DeleteOne(store, endpoint)
          /\ response' = Reply("unsubscribe", 200)
  /\ UNCHANGED <<moods, clock, emitted, req, issued>>

\* ------------------------------------------------- sendNotificationToAll
\* subscriptions.map(async ...) calls webpush.sendNotification for every
\* subscription before the first of them settles.
StartTasksFirstOnly(subs) ==
  [x \in subs |->
     [st |-> IF x = (CHOOSE y \in subs : TRUE) THEN "sending" ELSE "queued",
      code |-> 0, pruned |-> "no"]]

\* A task is one run of the callback: st is where it stands, code the status
\* its delivery settled with (0: not yet), pruned whether its deleteOne has
\* succeeded and left the store without ("absent") or with ("kept") a document
\* of its endpoint.
StartTasks(subs) == [x \in subs |-> [st |-> "sending", code |-> 0, pruned |-> "no"]]

\* error.statusCode === 410 || error.statusCode === 404
IsGoneAnyFailure(code) == code # 201

IsGone(code) == code = 410 \/ code = 404

\* results.successful++
CountSuccessLost(results) == results

CountSuccess(results) == [results EXCEPT !.successful = @ + 1]

\* results.failed++; results.errors.push({endpoint, error: error.message})
CountFailure(results, endpoint, code) ==
  [results EXCEPT !.failed = @ + 1,
                  !.errors = Append(@, [endpoint |-> endpoint, error |-> code])]

\* A delivery settles whenever the push service answers, whatever the state
\* of the other deliveries of the dispatch.
CanSettleInTurn(r, x) ==
  /\ r.task[x].st = "sending"
  /\ x = (CHOOSE y \in DOMAIN r.task : r.task[y].st = "sending")
  /\ \A y \in DOMAIN r.task : r.task[y].st \in {"sending", "fulfilled"}

CanSettle(r, x) == r.task[x].st = "sending"

\* What the awaiting handler does once Promise.all(promises) has settled:
\* POST /api/send-test-notification answers 200 with the results, or 500 from
\* its catch; sendMoodUpdateNotification logs either way and POST
\* /api/mood/set answers 200.
StatusAfterDispatch(kind, disp) ==
  IF kind = "test" /\ disp = "rejected" THEN 500 ELSE 200

\* await Promise.all(promises): rejected as soon as one of the promises is,
\* fulfilled once all of them are.
Join(r) ==
  IF r.disp # "pending" THEN r
  ELSE IF \E x \in DOMAIN r.task : r.task[x].st = "rejected"
  THEN [r EXCEPT !.disp = "rejected", !.pc = "done",
                 !.status = StatusAfterDispatch(r.kind, "rejected")]
  ELSE IF \A x \in DOMAIN r.task : r.task[x].st = "fulfilled"
  THEN [r EXCEPT !.disp = "returned", !.pc = "done",
                 !.status = StatusAfterDispatch(r.kind, "returned")]
  ELSE r

\* sendNotificationToAll(subscriptions, payload), up to its await
Dispatch(r, subs) ==
  Join([r EXCEPT !.pc = "dispatching", !.disp = "pending",
                 !.results = NoResults, !.task = StartTasks(subs)])

\* webpush.sendNotification settles for subscription x with `code`; the
\* callback runs to its end, or to its await of deleteOne.
SendSettles(s, x, code) ==
  /\ x \in DOMAIN req[s].task
  /\ CanSettle(req[s], x)
  /\ LET r == req[s]
         t == IF code # 201 /\ IsGone(code)
              THEN [r.task[x] EXCEPT !.st = "deleting", !.code = code]
              ELSE [r.task[x] EXCEPT !.st = "fulfilled", !.code = code]
         res == IF code = 201
                THEN CountSuccess(r.results)
                ELSE CountFailure(r.results, x.endpoint, code)
     IN req' = [req EXCEPT ![s] = Join([r EXCEPT !.task[x] = t, !.results = res])]
  /\ UNCHANGED <<store, moods, clock, emitted, issued, response>>

\* The callback's await PushSubscription.deleteOne({endpoint}) settles: the
\* callback ends, or the rejection leaves it (it is inside the catch block).
PruneSettles(s, x, dbOk) ==
  /\ x \in DOMAIN req[s].task
  /\ req[s].task[x].st = "deleting"
  /\ store' = IF dbOk THEN DeleteOne(store, x.endpoint) ELSE store
  /\ LET r == req[s]
         t == IF dbOk
              THEN [r.task[x] EXCEPT
                      !.st = "fulfilled",
                      !.pruned = IF Matching(store', x.endpoint) = {}
                                 THEN "absent" ELSE "kept"]
              ELSE [r.task[x] EXCEPT !.st = "rejected"]
     IN req' = [req EXCEPT ![s] = Join([r EXCEPT !.task[x] = t])]
  /\ UNCHANGED <<moods, clock, emitted, issued, response>>

\* ------------------------------------------------------ multi-step requests
\* Slots are taken in order, and again only when none is left untaken.
Free(s) ==
  /\ issued < MaxRequests
  /\ \/ req[s].pc = "idle" /\ \A q \in Slots : q < s => req[q].pc # "idle"
     \/ /\ req[s].pc = "done"
        /\ \A x \in DOMAIN req[s].task : req[s].task[x].st \in {"fulfilled", "rejected"}
        /\ \A q \in Slots : req[q].pc # "idle"

Done(kind, status) == [IdleReq EXCEPT !.pc = "done", !.kind = kind, !.status = status]

\* POST /api/send-test-notification: await PushSubscription.find() settles.
TestNotification(s, dbOk) ==
  /\ Free(s)
  /\ req' = [req EXCEPT ![s] =
       IF ~dbOk THEN Done("test", 500)
       ELSE IF store = {} THEN Done("test", 200)
       ELSE Dispatch([IdleReq EXCEPT !.kind = "test"], store)]
  /\ issued' = issued + 1
  /\ UNCHANGED <<store, moods, clock, emitted, response>>

\* new Mood({mood, emoji, userId: 'girlfriend'}): timestamp defaults to Date.now
NewMood(body) ==
  [mood |-> body.mood, emoji |-> body.emoji, timestamp |-> clock, userId |-> "girlfriend"]

\* moodData / the 'mood' of a response
MoodData(doc) == [mood |-> doc.mood, emoji |-> doc.emoji, timestamp |-> doc.timestamp]

\* POST /api/mood/set, up to await newMood.save()
MoodSet(s, body) ==
  /\ Free(s)
  /\ req' = [req EXCEPT ![s] =
       IF Falsy(body.mood) \/ Falsy(body.emoji) THEN Done("mood", 400)
       ELSE [IdleReq EXCEPT !.pc = "saving", !.kind = "mood", !.doc = NewMood(body)]]
  /\ issued' = issued + 1
  /\ UNCHANGED <<store, moods, clock, emitted, response>>

\* Document validation of save(): mood is required and in the enum, emoji is
\* required.
ValidMood(doc) == doc.mood \in MoodEnum /\ ~Falsy(doc.emoji)

\* newMood.save() of a new document: an insert into the Mood collection.
SaveReplacesLog(log, doc) == <<doc>>

Save(log, doc) == Append(log, doc)

\* The handler with io.emit and sendMoodUpdateNotification before the save
\* has settled: they run whatever the outcome of the save.
MoodSaveEmitsFirst(s, dbOk, emitOk) ==
  /\ req[s].pc = "saving"
  /\ moods' = IF ValidMood(req[s].doc) /\ dbOk THEN Save(moods, req[s].doc) ELSE moods
  /\ emitted' = Append(emitted, MoodData(req[s].doc))
  /\ req' = [req EXCEPT ![s].pc = "finding", ![s].saved = ValidMood(req[s].doc) /\ dbOk,
                        ![s].emit = "sent", ![s].notified = TRUE]
  /\ UNCHANGED <<store, clock, issued, response>>

\* await newMood.save() settles; then io.emit('mood-updated', moodData) and
\* sendMoodUpdateNotification up to its await PushSubscription.find().  A
\* throw of io.emit leaves the try block for the handler's catch, which
\* answers 500: sendMoodUpdateNotification is then never called.
MoodSave(s, dbOk, emitOk) ==
  /\ req[s].pc = "saving"
  /\ IF ValidMood(req[s].doc) /\ dbOk
     THEN /\ moods' = Save(moods, req[s].doc)
          /\ IF emitOk
             THEN /\ emitted' = Append(emitted, MoodData(req[s].doc))
                  /\ req' = [req EXCEPT ![s].pc = "finding", ![s].saved = TRUE,
                                        ![s].emit = "sent", ![s].notified = TRUE]
             ELSE /\ emitted' = emitted
                  /\ req' = [req EXCEPT ![s].pc = "done", ![s].saved = TRUE,
                                        ![s].emit = "threw", ![s].status = 500]
     ELSE /\ req' = [req EXCEPT ![s].pc = "done", ![s].status = 500]
          /\ UNCHANGED <<moods, emitted>>
  /\ UNCHANGED <<store, clock, issued, response>>

\* sendMoodUpdateNotification: await PushSubscription.find() settles.  Its
\* catch swallows a rejection; POST /api/mood/set then answers 200.
MoodFind(s, dbOk) ==
  /\ req[s].pc = "finding"
  /\ req' = [req EXCEPT ![s] =
       IF ~dbOk \/ store = {}
       THEN [req[s] EXCEPT !.pc = "done", !.status = 200]
       ELSE Dispatch(req[s], store)]
  /\ UNCHANGED <<store, moods, clock, emitted, issued, response>>

\* ------------------------------------------------------ GET /api/mood/current
\* Mood.findOne().sort({timestamp: -1}): a document with the greatest
\* timestamp; which one, among several with that timestamp, is not specified.
LatestIsLastInserted(log) == {Len(log)}

Latest(log) ==
  {i \in 1..Len(log) : \A j \in 1..Len(log) : log[j].timestamp <= log[i].timestamp}

\* `${n} ${unit}${n === 1 ? '' : 's'} ago`
AgoAlwaysPlural(n, unit) == [n |-> n, unit |-> unit \o "s"]

Ago(n, unit) == [n |-> n, unit |-> IF n = 1 THEN unit ELSE unit \o "s"]

\* getTimeAgo(timestamp), with `now` the value of new Date(); Math.floor of a
\* quotient is \div.
getTimeAgo(timestamp, now) ==
  LET diffMinutes == (now - timestamp) \div (1000 * 60)
      diffHours == diffMinutes \div 60
      diffDays == diffHours \div 24
  IN IF diffMinutes < 1 THEN JustNow
     ELSE IF diffMinutes < 60 THEN Ago(diffMinutes, "minute")
     ELSE IF diffHours < 24 THEN Ago(diffHours, "hour")
     ELSE Ago(diffDays, "day")

MoodCurrent(dbOk) ==
  /\ IF ~dbOk
     THEN response' = Reply("current", 500)
     ELSE IF moods = <<>>
     THEN response' = Reply("current", 200)
     ELSE \E i \in Latest(moods) :
            response' = [Reply("current", 200) EXCEPT
                           !.mood = MoodData(moods[i]),
                           !.timeAgo = getTimeAgo(moods[i].timestamp, clock)]
  /\ UNCHANGED <<store, moods, clock, emitted, req, issued>>

\* ------------------------------------------------------ GET /api/mood/history
\* A query value is the sequence of its characters.  parseInt reads a query
\* without the parameter, undefined, as the text 'undefined'.
NoLimit == <<"u", "n", "d", "e", "f", "i", "n", "e", "d">>

DigitChars == <<"0", "1", "2", "3", "4", "5", "6", "7", "8", "9">>

IsDigit(c) == \E d \in 1..Len(DigitChars) : DigitChars[d] = c

DigitValue(c) == (CHOOSE d \in 1..Len(DigitChars) : DigitChars[d] = c) - 1

\* The value of the digits str starts with, `acc` being the value so far.
RECURSIVE LeadingDigits(_, _)
LeadingDigits(str, acc) ==
  IF str = <<>> \/ ~IsDigit(Head(str)) THEN acc
  ELSE LeadingDigits(Tail(str), 10 * acc + DigitValue(Head(str)))

\* parseInt(str) of an unsigned value: the number its leading digits spell,
\* NaN when it does not start with a digit.
ParseInt(str) ==
  IF str = <<>> \/ ~IsDigit(Head(str))
  THEN [nan |-> TRUE, value |-> 0]
  ELSE [nan |-> FALSE, value |-> LeadingDigits(str, 0)]

\* parseInt(req.query.limit) || 10: NaN and 0 are falsy.
LimitOf(str) ==
  LET parsed == ParseInt(str)
  IN IF parsed.nan \/ parsed.value = 0 THEN 10 ELSE parsed.value

\* .sort({timestamp: -1}): the orders of the documents (as sequences of their
\* positions in the collection) with no document before one of a greater
\* timestamp; documents of one timestamp come in any order.
OldestFirst(log) ==
  {p \in [1..Len(log) -> 1..Len(log)] :
     /\ \A i, j \in 1..Len(log) : i # j => p[i] # p[j]
     /\ \A i, j \in 1..Len(log) :
          i < j => log[p[i]].timestamp <= log[p[j]].timestamp}

SortDescending(log) ==
  {p \in [1..Len(log) -> 1..Len(log)] :
     /\ \A i, j \in 1..Len(log) : i # j => p[i] # p[j]
     /\ \A i, j \in 1..Len(log) :
          i < j => log[p[i]].timestamp >= log[p[j]].timestamp}

\* An element of the response's moods array.
HistoryEntry(doc) ==
  [mood |-> doc.mood, emoji |-> doc.emoji, timestamp |-> doc.timestamp,
   timeAgo |-> getTimeAgo(doc.timestamp, clock)]

MoodHistory(limitStr, dbOk) ==
  /\ IF ~dbOk
     THEN response' = [Reply("history", 500) EXCEPT !.limit = limitStr]
     ELSE \E p \in SortDescending(moods) :
            LET limit == LimitOf(limitStr)
                n == IF limit < Len(moods) THEN limit ELSE Len(moods)
            IN response' = [Reply("history", 200) EXCEPT
                              !.limit = limitStr,
                              !.history = [i \in 1..n |-> HistoryEntry(moods[p[i]])]]
  /\ UNCHANGED <<store, moods, clock, emitted, req, issued>>

\* Date.now() advances.
Tick ==
  /\ clock < MaxClock
  /\ clock' = clock + 1
  /\ UNCHANGED <<store, moods, emitted, req, issued, response>>

\* ------------------------------------------ the page (push-notifications.js)
\* A step of the page that sends nothing to the server.
ClientFrame == UNCHANGED <<store, moods, clock, emitted, req, issued, response, sw>>

\* JSON.stringify(this.subscription): the endpoint and the keys the browser
\* made; no userId.
SubscriptionJSON(endpoint) == [endpoint |-> endpoint, keys |-> "k1", userId |-> Undefined]

\* updateUIState(isSubscribed): shows the controls of the state and enables
\* them all.
updateUIState(c, isSubscribed) ==
  [c EXCEPT !.ui = IF isSubscribed THEN "subscribed" ELSE "unsubscribed",
            !.subscribeDisabled = FALSE, !.unsubscribeDisabled = FALSE]

\* isSubscribed()
isSubscribed(c) == c.subscription # Null

\* subscribe() returns to the click handler of subscribe-btn, which enables
\* the control again when it returned false.
SubscribeReturns(c, success) ==
  [c EXCEPT !.pc = "idle", !.result = IF success THEN "true" ELSE "false",
            !.subscribeDisabled = IF success THEN @ ELSE FALSE]

\* unsubscribe() returns to the click handler of unsubscribe-btn.
UnsubscribeReturns(c, success) ==
  [c EXCEPT !.pc = "idle", !.result = IF success THEN "true" ELSE "false",
            !.unsubscribeDisabled = IF success THEN @ ELSE FALSE]

\* DOMContentLoaded: a new manager, init(), and the click handlers.  regOk:
\* the browser supports push and navigator.serviceWorker.register resolves;
\* keyOk: the fetch of the VAPID key does.
PageLoad(regOk, keyOk) ==
  /\ client.pc = "idle"
  /\ LET c == [NewPage EXCEPT !.loaded = TRUE,
                              !.pushSubscription = client.pushSubscription,
                              !.permission = client.permission,
                              !.registration = regOk,
                              !.vapidPublicKey = regOk /\ keyOk]
     IN client' = IF regOk /\ keyOk
                  THEN updateUIState([c EXCEPT !.subscription = client.pushSubscription],
                                     client.pushSubscription # Null)
                  ELSE c
  /\ ClientFrame

\* A click on subscribe-btn, and subscribe() up to its await of
\* Notification.requestPermission().
ClickSubscribe ==
  /\ client.loaded /\ client.pc = "idle"
  /\ client.ui # "subscribed" /\ ~client.subscribeDisabled
  /\ LET c == [client EXCEPT
                 !.subscribeDisabled = TRUE, !.op = "subscribe", !.result = "none",
                 !.prior = [subscription |-> client.subscription,
                            pushSubscription |-> client.pushSubscription,
                            ui |-> client.ui]]
     IN client' = IF ~c.registration \/ ~c.vapidPublicKey
                  THEN SubscribeReturns(c, FALSE)
                  ELSE [c EXCEPT !.pc = "permission"]
  /\ ClientFrame

\* Notification.requestPermission() resolves: with the permission the user
\* gave before, or with the user's answer to the prompt.
PermissionSettles(permission) ==
  /\ client.pc = "permission"
  /\ client.permission = "default" \/ permission = client.permission
  /\ LET c == [client EXCEPT !.permission = permission]
     IN client' = IF permission # "granted"
                  THEN SubscribeReturns(c, FALSE)
                  ELSE [c EXCEPT !.pc = "subscribing"]
  /\ ClientFrame

\* registration.pushManager.subscribe() settles: it resolves with the
\* subscription of the registration, a new one when there is none, and
\* this.subscription is assigned; or it rejects.
PushSubscribeSettles(ok, endpoint) ==
  /\ client.pc = "subscribing"
  /\ client.pushSubscription # Null => endpoint = client.pushSubscription
  /\ client' = IF ok
                THEN [client EXCEPT !.pushSubscription = endpoint,
                                    !.subscription = endpoint, !.pc = "posting"]
                ELSE SubscribeReturns(client, FALSE)
  /\ ClientFrame

\* What becomes of a fetch: the request never reaches the server and the
\* fetch rejects ("lost"), the server handles it and its answer never
\* arrives, so that the fetch rejects ("unanswered"), or the answer arrives.
FetchOutcomes == {"lost", "unanswered", "answered"}

\* fetch('/api/subscribe') and response.json() settle.
PostSubscribeSettles(outcome, dbOk) ==
  /\ client.pc = "posting"
  /\ IF outcome = "lost"
     THEN UNCHANGED <<store, moods, clock, emitted, req, issued, response>>
     ELSE Subscribe(SubscriptionJSON(client.subscription), dbOk, TRUE)
  /\ client' = IF outcome = "answered" /\ response'.success
                THEN SubscribeReturns(updateUIState(client, TRUE), TRUE)
                ELSE SubscribeReturns(client, FALSE)
  /\ UNCHANGED sw

\* A click on unsubscribe-btn, and unsubscribe() up to its await of
\* this.subscription.unsubscribe().
ClickUnsubscribe ==
  /\ client.loaded /\ client.pc = "idle"
  /\ client.ui = "subscribed" /\ ~client.unsubscribeDisabled
  /\ LET c == [client EXCEPT
                 !.unsubscribeDisabled = TRUE, !.op = "unsubscribe", !.result = "none",
                 !.cancelled = "none", !.removal = FALSE]
     IN client' = IF ~isSubscribed(c)
                  THEN UnsubscribeReturns(c, FALSE)
                  ELSE [c EXCEPT !.pc = "cancelling"]
  /\ ClientFrame

\* this.subscription.unsubscribe() settles: true, and the registration has no
\* subscription any more (only a subscription that is the registration's can
\* be cancelled); false; or rejected.  After true the POST /api/unsubscribe is
\* sent.
CancelSettles(outcome) ==
  /\ client.pc = "cancelling"
  /\ outcome = "true" => client.pushSubscription = client.subscription
  /\ client' = IF outcome = "true"
                THEN [client EXCEPT !.pushSubscription = Null, !.cancelled = "true",
                                    !.removal = TRUE, !.pc = "removing"]
                ELSE UnsubscribeReturns([client EXCEPT !.cancelled = outcome], FALSE)
  /\ ClientFrame

\* fetch('/api/unsubscribe') settles; its response is not read.
PostUnsubscribeSettles(outcome, dbOk) ==
  /\ client.pc = "removing"
  /\ IF outcome = "lost"
     THEN UNCHANGED <<store, moods, clock, emitted, req, issued, response>>
     ELSE Unsubscribe(client.subscription, dbOk)
  /\ client' = IF outcome = "answered"
                THEN UnsubscribeReturns(
                       updateUIState([client EXCEPT !.subscription = Null], FALSE), TRUE)
                ELSE UnsubscribeReturns(client, FALSE)
  /\ UNCHANGED sw

NextClient ==
  \/ \E regOk \in BOOLEAN, keyOk \in BOOLEAN : PageLoad(regOk, keyOk)
  \/ ClickSubscribe
  \/ \E permission \in {"default", "granted", "denied"} : PermissionSettles(permission)
  \/ \E ok \in BOOLEAN, endpoint \in Endpoints : PushSubscribeSettles(ok, endpoint)
  \/ \E outcome \in FetchOutcomes, dbOk \in BOOLEAN : PostSubscribeSettles(outcome, dbOk)
  \/ ClickUnsubscribe
  \/ \E outcome \in {"true", "false", "rejected"} : CancelSettles(outcome)
  \/ \E outcome \in FetchOutcomes, dbOk \in BOOLEAN : PostUnsubscribeSettles(outcome, dbOk)

\* ------------------------------------- the service worker (unnamed/part_000)
CACHE_NAME == "mood-app-v1"

urlsToCache ==
  {"/", "/style.css", "/script.js", "/manifest.json", "/icon-192x192.png",
   "/icon-512x512.png"}

\* self.location.origin
Origin == "https://mood.app"

\* A step of the worker.
WorkerFrame ==
  UNCHANGED <<store, moods, clock, emitted, req, issued, response, client>>

\* The listener starts `pending` and returns, having passed the `extended`
\* part of it to waitUntil or respondWith.
Started(pending, extended) ==
  [phase |-> IF extended = {} THEN "handled" ELSE "running",
   pending |-> pending, extended |-> extended]

\* The work `w` of an event completes: the event is handled once nothing it
\* waits for is pending.
Completed(e, w) ==
  [e EXCEPT !.pending = @ \ {w},
            !.phase = IF @ = "running" /\ e.extended \cap (e.pending \ {w}) = {}
                      THEN "handled" ELSE @]

\* The work `w` is replaced by `next`, which the same promise chain waits for
\* as it waited for `w`.
Continued(e, w, next) ==
  [e EXCEPT !.pending = (@ \ {w}) \cup {next},
            !.extended = IF w \in @ THEN (@ \ {w}) \cup {next} ELSE @]

\* cache.addAll / cache.put into the bucket `name`, made by caches.open when
\* it is missing.
Put(buckets, name, paths) ==
  [n \in DOMAIN buckets \cup {name} |->
     IF n = name
     THEN (IF n \in DOMAIN buckets THEN buckets[n] ELSE {}) \cup paths
     ELSE buckets[n]]

\* caches.delete(name)
Delete(buckets, name) == [n \in DOMAIN buckets \ {name} |-> buckets[n]]

\* caches.match(path): some bucket holds it.
Match(buckets, path) == \E n \in DOMAIN buckets : path \in buckets[n]

\* The install event: waitUntil(caches.open().then(addAll).catch()), then
\* self.skipWaiting().
InstallEvent ==
  /\ sw.state = "parsed"
  /\ sw' = [sw EXCEPT !.state = "installing", !.skipWaiting = TRUE,
                      !.ev["install"] = Started({"precache"}, {"precache"})]
  /\ WorkerFrame

\* The chain of install without its catch: a rejection leaves the worker
\* not installed.
PrecacheRejects(outcome) ==
  /\ "precache" \in sw.ev["install"].pending
  /\ sw' = [sw EXCEPT
       !.caches = IF outcome = "cached" THEN Put(@, CACHE_NAME, urlsToCache)
                  ELSE IF outcome = "addAllFailed" THEN Put(@, CACHE_NAME, {})
                  ELSE @,
       !.ev["install"] = Completed(@, "precache"),
       !.state = IF outcome = "cached" THEN "installed" ELSE @]
  /\ WorkerFrame

\* The chain of install settles: caches.open rejected, or it made the bucket
\* and cache.addAll stored every URL or (one fetch failing) none.  The catch
\* turns a rejection into a fulfilment; the worker is installed.
PrecacheSettles(outcome) ==
  /\ "precache" \in sw.ev["install"].pending
  /\ sw' = [sw EXCEPT
       !.caches = IF outcome = "cached" THEN Put(@, CACHE_NAME, urlsToCache)
                  ELSE IF outcome = "addAllFailed" THEN Put(@, CACHE_NAME, {})
                  ELSE @,
       !.ev["install"] = Completed(@, "precache"),
       !.state = "installed"]
  /\ WorkerFrame

\* The activate event, dispatched to an installed worker that no active one
\* stands before or that has called skipWaiting: waitUntil(caches.keys()
\* ...), then self.clients.claim().
ActivateEvent ==
  /\ sw.state = "installed" /\ sw.skipWaiting
  /\ sw' = [sw EXCEPT !.state = "activating", !.before = DOMAIN sw.caches,
                      !.ev["activate"] = Started({"keys", "claim"}, {"keys"})]
  /\ WorkerFrame

\* The event that is handled: activate makes the worker activated.
AfterActivate(w) ==
  IF w.ev["activate"].phase = "handled" /\ w.state = "activating"
  THEN [w EXCEPT !.state = "activated"] ELSE w

\* caches.keys() resolves: caches.delete is called for every name but
\* CACHE_NAME, and Promise.all waits for them all.
KeysSettles ==
  /\ "keys" \in sw.ev["activate"].pending
  /\ LET names == DOMAIN sw.caches \ {CACHE_NAME}
     IN sw' = AfterActivate(
          [sw EXCEPT !.toDelete = names,
                     !.ev["activate"] =
                        IF names = {} THEN Completed(@, "keys")
                        ELSE Continued(@, "keys", "delete")])
  /\ WorkerFrame

\* One caches.delete resolves.
DeleteSettles(name) ==
  /\ name \in sw.toDelete
  /\ sw' = AfterActivate(
       [sw EXCEPT !.caches = Delete(@, name),
                  !.toDelete = @ \ {name},
                  !.ev["activate"] =
                     IF sw.toDelete = {name} THEN Completed(@, "delete") ELSE @])
  /\ WorkerFrame

\* clients.claim() takes effect.
ClaimSettles ==
  /\ "claim" \in sw.ev["activate"].pending
  /\ sw' = [sw EXCEPT
       !.claimed = TRUE,
       !.claimedPurged = sw.ev["activate"].pending \cap {"keys", "delete"} = {},
       !.ev["activate"] = Completed(@, "claim")]
  /\ WorkerFrame

\* The requests of the pages: the document, a static asset, an API read, an
\* API write, and an asset of another origin.
FetchRequests ==
  {[method |-> "GET", origin |-> Origin, path |-> "/", destination |-> "document"],
   [method |-> "GET", origin |-> Origin, path |-> "/style.css", destination |-> "style"],
   [method |-> "GET", origin |-> Origin, path |-> "/api/mood/current", destination |-> ""],
   [method |-> "POST", origin |-> Origin, path |-> "/api/mood/set", destination |-> ""],
   [method |-> "GET", origin |-> "https://fonts.example", path |-> "/font.css",
    destination |-> "style"]}

\* The fetch event: no respondWith for a request that is not a GET or not of
\* the worker's origin (the browser handles it), else
\* respondWith(caches.match(event.request) ...).
FetchEvent(request) ==
  /\ sw.state = "activated"
  /\ sw.ev["fetch"].phase # "running" /\ sw.ev["fetch"].pending = {}
  /\ sw' = IF request.method # "GET" \/ request.origin # Origin
            THEN [sw EXCEPT !.request = request, !.answer = "browser",
                            !.ev["fetch"] = Started({}, {})]
            ELSE [sw EXCEPT !.request = request, !.answer = "none",
                            !.ev["fetch"] = Started({"match"}, {"match"})]
  /\ WorkerFrame

\* The catch of the chain: caches.match('/') for a document, undefined (a
\* network error for the page) for anything else.
Caught(w, from) ==
  IF w.request.destination = "document"
  THEN [w EXCEPT !.ev["fetch"] = Continued(@, from, "fallback")]
  ELSE [w EXCEPT !.answer = "undefined", !.ev["fetch"] = Completed(@, from)]

\* caches.match(event.request) settles: a hit answers the page, a miss goes
\* to the network.
CacheMatchSettles(ok) ==
  /\ "match" \in sw.ev["fetch"].pending
  /\ sw' = IF ~ok THEN Caught(sw, "match")
            ELSE IF Match(sw.caches, sw.request.path)
            THEN [sw EXCEPT !.answer = "cached", !.ev["fetch"] = Completed(@, "match")]
            ELSE [sw EXCEPT !.ev["fetch"] = Continued(@, "match", "network")]
  /\ WorkerFrame

\* fetch(fetchRequest) settles: a basic response of status 200 ("ok") is
\* handed to caches.open().then(cache.put), a chain that is not returned, and
\* answers the page; any other response ("notOk") only answers the page.
NetworkSettles(kind) ==
  /\ "network" \in sw.ev["fetch"].pending
  /\ sw' = IF kind = "failed" THEN Caught(sw, "network")
            ELSE [sw EXCEPT
                    !.answer = "network",
                    !.ev["fetch"] =
                       Completed([@ EXCEPT !.pending =
                                    IF kind = "ok" THEN @ \cup {"refill"} ELSE @],
                                 "network")]
  /\ WorkerFrame

\* caches.match('/') of the catch settles.
FallbackSettles ==
  /\ "fallback" \in sw.ev["fetch"].pending
  /\ sw' = [sw EXCEPT
       !.answer = IF Match(sw.caches, "/") THEN "cached" ELSE "undefined",
       !.ev["fetch"] = Completed(@, "fallback")]
  /\ WorkerFrame

\* caches.open(CACHE_NAME).then(cache.put) completes.
RefillSettles(ok) ==
  /\ "refill" \in sw.ev["fetch"].pending
  /\ sw' = [sw EXCEPT
       !.caches = IF ok THEN Put(@, CACHE_NAME, {sw.request.path}) ELSE @,
       !.ev["fetch"] = Completed(@, "refill")]
  /\ WorkerFrame

\* The sync event: waitUntil(syncMoodData()) for the tag 'mood-sync'.
SyncEvent(tag) ==
  /\ sw.state = "activated"
  /\ sw.ev["sync"].phase # "running"
  /\ sw' = [sw EXCEPT !.ev["sync"] =
       IF tag = "mood-sync" THEN Started({"sync"}, {"sync"}) ELSE Started({}, {})]
  /\ WorkerFrame

\* syncMoodData() resolves.
SyncSettles ==
  /\ "sync" \in sw.ev["sync"].pending
  /\ sw' = [sw EXCEPT !.ev["sync"] = Completed(@, "sync")]
  /\ WorkerFrame

\* The message event: skipWaiting() for SKIP_WAITING, and a reply on the
\* port when there is one.
MessageEvent(type, port) ==
  /\ sw.state # "parsed"
  /\ sw' = [sw EXCEPT !.skipWaiting = @ \/ type = "SKIP_WAITING",
                      !.replied = port,
                      !.ev["message"] = Started({}, {})]
  /\ WorkerFrame

\* --------------------------------------------------- push, notificationclick
\* {...notificationData, ...payload}: a property of the payload replaces the
\* default of its name.
SpreadKeepsDefaults(defaults, payload) == defaults

Spread(defaults, payload) ==
  [title |-> IF "title" \in payload.has THEN payload.val.title ELSE defaults.title,
   body |-> IF "body" \in payload.has THEN payload.val.body ELSE defaults.body,
   icon |-> IF "icon" \in payload.has THEN payload.val.icon ELSE defaults.icon,
   badge |-> IF "badge" \in payload.has THEN payload.val.badge ELSE defaults.badge,
   tag |-> IF "tag" \in payload.has THEN payload.val.tag ELSE defaults.tag,
   data |-> IF "data" \in payload.has THEN payload.val.data ELSE defaults.data]

\* The messages the push service delivers: none; the mood update and the test
\* notification of the server; an object with a body and a URL only; the
\* empty object; the number 5, which parses to a value without properties;
\* a text that is not JSON; and the empty text.
PushMessages ==
  {NoData,
   [present |-> TRUE, text |-> "{mood update}", parses |-> TRUE,
    json |-> Object(NotificationFields \cup {"actions"},
               [title |-> "Mood Update", body |-> "Someone's feeling happy!",
                icon |-> "/icon-192x192.png", badge |-> "/badge-72x72.png",
                tag |-> "mood-update", data |-> [url |-> "/"]])],
   [present |-> TRUE, text |-> "{test}", parses |-> TRUE,
    json |-> Object(NotificationFields,
               [title |-> "Test Notification",
                body |-> "This is a test push notification from your mood app!",
                icon |-> "/icon-192x192.png", badge |-> "/badge-72x72.png",
                tag |-> "test", data |-> [url |-> "/"]])],
   [present |-> TRUE, text |-> "{body, data}", parses |-> TRUE,
    json |-> Object({"body", "data"},
               [DefaultNotification EXCEPT !.body = "See the history",
                                           !.data = [url |-> "/history"]])],
   [present |-> TRUE, text |-> "{data without url}", parses |-> TRUE,
    json |-> Object({"tag", "data"},
               [DefaultNotification EXCEPT !.tag = "plain",
                                           !.data = [url |-> Undefined]])],
   [present |-> TRUE, text |-> "{}", parses |-> TRUE, json |-> NoObject],
   [present |-> TRUE, text |-> "5", parses |-> TRUE, json |-> NoObject],
   [present |-> TRUE, text |-> "Hello there", parses |-> FALSE, json |-> NoObject],
   [present |-> TRUE, text |-> "", parses |-> FALSE, json |-> NoObject]}

\* notificationData after the payload is read: event.data.text() ||
\* notificationData.body when json() throws.
NotificationData(data) ==
  IF ~data.present THEN DefaultNotification
  ELSE IF data.parses THEN Spread(DefaultNotification, data.json)
  ELSE [DefaultNotification EXCEPT !.body = IF data.text = "" THEN @ ELSE data.text]

\* The arguments of self.registration.showNotification.
ShowNotification(nd) ==
  [title |-> nd.title, body |-> nd.body, icon |-> nd.icon, badge |-> nd.badge,
   tag |-> nd.tag, data |-> nd.data, actions |-> <<"view", "close">>]

\* The push event: waitUntil(self.registration.showNotification(...)).
PushEvent(data) ==
  /\ sw.state = "activated"
  /\ sw.ev["push"].phase # "running"
  /\ sw' = [sw EXCEPT !.data = data,
                      !.rendered = <<ShowNotification(NotificationData(data))>>,
                      !.ev["push"] = Started({"show"}, {"show"})]
  /\ WorkerFrame

\* showNotification settles: the notification is on display, in the place of
\* one of the same tag; or (no permission) it rejects.
ShowSettles(ok) ==
  /\ "show" \in sw.ev["push"].pending
  /\ sw' = [sw EXCEPT
       !.displayed = IF ok
                     THEN {n \in @ : n.tag # sw.rendered[1].tag} \cup {sw.rendered[1]}
                     ELSE @,
       !.ev["push"] = Completed(@, "show")]
  /\ WorkerFrame

\* The notificationclick event: notification.close(), nothing more for the
\* action 'close', else waitUntil(clients.matchAll(...) ...).
NotificationClick(n, action) ==
  /\ sw.state = "activated"
  /\ sw.ev["notificationclick"].phase # "running"
  /\ n \in sw.displayed
  /\ sw' = [sw EXCEPT
       !.displayed = @ \ {n},
       !.click = [tag |-> n.tag, url |-> n.data.url, action |-> action,
                  closed |-> TRUE, focused |-> <<>>, opened |-> <<>>],
       !.ev["notificationclick"] =
          IF action = "close" THEN Started({}, {})
          ELSE Started({"matchAll"}, {"matchAll"})]
  /\ WorkerFrame

\* data.url || '/'
ClickUrl(url) == IF Falsy(url) THEN "/" ELSE url

\* new URL(url, self.location.origin).href of a path
Href(url) == Origin \o url

\* The windows of clientList whose url is targetUrl, by position.
AnyWindow(windows, targetUrl) == DOMAIN windows

WindowsAt(windows, targetUrl) == {i \in DOMAIN windows : windows[i] = targetUrl}

\* clients.matchAll resolves: client.focus() of the first window at the target
\* URL, or clients.openWindow(url) when there is none.
MatchAllSettles ==
  /\ "matchAll" \in sw.ev["notificationclick"].pending
  /\ LET url == ClickUrl(sw.click.url)
         found == WindowsAt(sw.windows, Href(url))
     IN sw' = IF found # {}
              THEN [sw EXCEPT
                      !.click.focused =
                         Append(@, CHOOSE i \in found : \A j \in found : i <= j),
                      !.ev["notificationclick"] = Continued(@, "matchAll", "focus")]
              ELSE [sw EXCEPT
                      !.click.opened = Append(@, url),
                      !.ev["notificationclick"] = Continued(@, "matchAll", "open")]
  /\ WorkerFrame

\* client.focus() settles.
FocusSettles ==
  /\ "focus" \in sw.ev["notificationclick"].pending
  /\ sw' = [sw EXCEPT !.ev["notificationclick"] = Completed(@, "focus")]
  /\ WorkerFrame

\* clients.openWindow(url) settles: a new window at the URL, or a rejection,
\* which the catch of the chain logs.
OpenWindowSettles(ok) ==
  /\ "open" \in sw.ev["notificationclick"].pending
  /\ sw' = [sw EXCEPT
       !.windows = IF ok THEN Append(@, Href(sw.click.opened[1])) ELSE @,
       !.ev["notificationclick"] = Completed(@, "open")]
  /\ WorkerFrame

\* Push messages and notification clicks, at a worker that installs and
\* activates with nothing failing.
NextNotify ==
  \/ InstallEvent
  \/ PrecacheSettles("cached")
  \/ ActivateEvent
  \/ KeysSettles
  \/ ClaimSettles
  \/ \E data \in PushMessages : PushEvent(data)
  \/ \E ok \in BOOLEAN : ShowSettles(ok)
  \/ \E n \in sw.displayed, action \in {"", "view", "close"} : NotificationClick(n, action)
  \/ MatchAllSettles
  \/ FocusSettles
  \/ \E ok \in BOOLEAN : OpenWindowSettles(ok)

\* The windows open when the worker starts: none; the app; the history and
\* the app twice; the app under a URL with a query.
WindowLists ==
  {<<>>, <<Href("/")>>, <<Href("/history"), Href("/"), Href("/")>>, <<Href("/?source=pwa")>>}

InitNotify ==
  /\ store = {}
  /\ moods = <<>>
  /\ clock = 0
  /\ emitted = <<>>
  /\ req = [s \in Slots |-> IdleReq]
  /\ issued = 0
  /\ response = NoResponse
  /\ client = NewPage
  /\ sw \in {[NewWorker EXCEPT !.windows = windows] : windows \in WindowLists}

SpecNotify == InitNotify /\ [][NextNotify]_vars

\* The lifecycle and fetch, sync and message events.
NextWorker ==
  \/ InstallEvent
  \/ \E outcome \in {"cached", "openFailed", "addAllFailed"} : PrecacheSettles(outcome)
  \/ ActivateEvent
  \/ KeysSettles
  \/ \E name \in sw.toDelete : DeleteSettles(name)
  \/ ClaimSettles
  \/ \E request \in FetchRequests : FetchEvent(request)
  \/ \E ok \in BOOLEAN : CacheMatchSettles(ok)
  \/ \E kind \in {"ok", "notOk", "failed"} : NetworkSettles(kind)
  \/ FallbackSettles
  \/ \E ok \in BOOLEAN : RefillSettles(ok)
  \/ \E tag \in {"mood-sync", "other-sync"} : SyncEvent(tag)
  \/ SyncSettles
  \/ \E type \in {"SKIP_WAITING", "PING"}, port \in BOOLEAN : MessageEvent(type, port)

\* The buckets of Cache Storage before the worker runs: any of the bucket of
\* this version, the bucket of an earlier one, and one of another name.
OldBuckets == {"mood-app-v0", "runtime"}

InitialCaches ==
  {[n \in names |-> IF n = CACHE_NAME THEN urlsToCache ELSE {"/"}] :
     names \in SUBSET (OldBuckets \cup {CACHE_NAME})}

InitWorker ==
  /\ store = {}
  /\ moods = <<>>
  /\ clock = 0
  /\ emitted = <<>>
  /\ req = [s \in Slots |-> IdleReq]
  /\ issued = 0
  /\ response = NoResponse
  /\ client = NewPage
  /\ sw \in {WorkerWith(buckets) : buckets \in InitialCaches}

SpecWorker == InitWorker /\ [][NextWorker]_vars

\* The browser runs the worker's script, and every promise of the install and
\* activate chains settles: Cache Storage answers, and a fetch of cache.addAll
\* ends in a response or a network error.  An installed worker that has
\* called skipWaiting is activated without waiting for its pages to close.
WorkerFairness ==
  /\ WF_vars(InstallEvent)
  /\ WF_vars(\E outcome \in {"cached", "openFailed", "addAllFailed"} : PrecacheSettles(outcome))
  /\ WF_vars(ActivateEvent)
  /\ WF_vars(KeysSettles)
  /\ WF_vars(\E name \in sw.toDelete : DeleteSettles(name))

SpecLifecycle == InitWorker /\ [][NextWorker]_vars /\ WorkerFairness

\* The values of the limit parameter the clients send.
LimitInputs ==
  {NoLimit, <<"a", "b", "c">>, <<"0">>, <<"1">>, <<"2">>, <<"1", "x">>}

Next ==
  \/ Tick /\ ServerFrame
  \/ \E body \in SubscribeBodies, dbOk \in BOOLEAN, strip \in BOOLEAN :
       Subscribe(body, dbOk, strip) /\ ServerFrame
  \/ \E endpoint \in Endpoints \cup {Undefined}, dbOk \in BOOLEAN :
       Unsubscribe(endpoint, dbOk) /\ ServerFrame
  \/ \E s \in Slots, dbOk \in BOOLEAN : TestNotification(s, dbOk) /\ ServerFrame
  \/ \E s \in Slots, body \in MoodBodies : MoodSet(s, body) /\ ServerFrame
  \/ \E s \in Slots, dbOk \in BOOLEAN, emitOk \in BOOLEAN : MoodSave(s, dbOk, emitOk) /\ ServerFrame
  \/ \E s \in Slots, dbOk \in BOOLEAN : MoodFind(s, dbOk) /\ ServerFrame
  \/ \E s \in Slots : \E x \in DOMAIN req[s].task : \E code \in DeliveryCodes :
       SendSettles(s, x, code) /\ ServerFrame
  \/ \E s \in Slots : \E x \in DOMAIN req[s].task : \E dbOk \in BOOLEAN :
       PruneSettles(s, x, dbOk) /\ ServerFrame
  \/ \E dbOk \in BOOLEAN : MoodCurrent(dbOk) /\ ServerFrame
  \/ \E limitStr \in LimitInputs, dbOk \in BOOLEAN : MoodHistory(limitStr, dbOk) /\ ServerFrame
  \/ NextClient
  \/ NextWorker
  \/ NextNotify

Spec == Init /\ [][Next]_vars

\* ------------------------------------------------------------ environments
\* Next lets the clients send every request with every body.  The
\* specifications below are the same handlers under clients that send only
\* part of the requests; each claim is checked under the one that sends what
\* the claim is about.

\* Well-formed subscriptions of one owner.
PlainBody(endpoint) == [endpoint |-> endpoint, keys |-> "k1", userId |-> Undefined]

PlainBodies == {PlainBody(endpoint) : endpoint \in Endpoints}

\* The push fan-out: test notifications, with subscriptions coming and going.
NextDispatch ==
  \/ \E body \in PlainBodies : Subscribe(body, TRUE, TRUE) /\ ServerFrame
  \/ \E endpoint \in Endpoints : Unsubscribe(endpoint, TRUE) /\ ServerFrame
  \/ \E s \in Slots, dbOk \in BOOLEAN : TestNotification(s, dbOk) /\ ServerFrame
  \/ \E s \in Slots : \E x \in DOMAIN req[s].task : \E code \in DeliveryCodes :
       SendSettles(s, x, code) /\ ServerFrame
  \/ \E s \in Slots : \E x \in DOMAIN req[s].task : \E dbOk \in BOOLEAN :
       PruneSettles(s, x, dbOk) /\ ServerFrame

SpecDispatch == Init /\ [][NextDispatch]_vars

\* The subscription store: every subscribe body for one endpoint and for none,
\* the well-formed one for the other endpoint, every unsubscribe, and one test
\* notification whose deliveries succeed or find the endpoint gone.
StoreBodies ==
  {body \in SubscribeBodies : body.endpoint # "e2"} \cup {PlainBody("e2")}

NextStore ==
  \/ \E body \in StoreBodies :
       \E strip \in (IF body.keys = Undefined THEN BOOLEAN ELSE {TRUE}) :
         Subscribe(body, TRUE, strip) /\ ServerFrame
  \/ \E endpoint \in Endpoints : Subscribe(PlainBody(endpoint), FALSE, TRUE) /\ ServerFrame
  \/ \E endpoint \in Endpoints \cup {Undefined} : Unsubscribe(endpoint, TRUE) /\ ServerFrame
  \/ \E endpoint \in Endpoints : Unsubscribe(endpoint, FALSE) /\ ServerFrame
  \/ TestNotification(1, TRUE) /\ ServerFrame
  \/ \E x \in DOMAIN req[1].task : \E code \in {201, 410} : SendSettles(1, x, code) /\ ServerFrame
  \/ \E x \in DOMAIN req[1].task : PruneSettles(1, x, TRUE) /\ ServerFrame

SpecStore == Init /\ [][NextStore]_vars

\* The mood log: mood writes and reads, with one subscriber coming and going.
MoodRequests ==
  {[mood |-> "happy", emoji |-> "E1"], [mood |-> "silly", emoji |-> "E2"],
   [mood |-> "bored", emoji |-> "E1"], [mood |-> Undefined, emoji |-> "E1"],
   [mood |-> "happy", emoji |-> Undefined]}

NextMood ==
  \/ Tick /\ ServerFrame
  \/ Subscribe(PlainBody("e1"), TRUE, TRUE) /\ ServerFrame
  \/ \E s \in Slots, body \in MoodRequests : MoodSet(s, body) /\ ServerFrame
  \/ \E s \in Slots, dbOk \in BOOLEAN, emitOk \in BOOLEAN : MoodSave(s, dbOk, emitOk) /\ ServerFrame
  \/ \E s \in Slots, dbOk \in BOOLEAN : MoodFind(s, dbOk) /\ ServerFrame
  \/ \E s \in Slots : \E x \in DOMAIN req[s].task : \E code \in {201, 410} :
       SendSettles(s, x, code) /\ ServerFrame
  \/ \E s \in Slots : \E x \in DOMAIN req[s].task : \E dbOk \in BOOLEAN :
       PruneSettles(s, x, dbOk) /\ ServerFrame
  \/ \E dbOk \in BOOLEAN : MoodCurrent(dbOk) /\ ServerFrame

SpecMood == Init /\ [][NextMood]_vars

\* The history: mood writes that are persisted, with no subscriber, and the
\* reads of the log, the history with every limit.
NextHistory ==
  \/ Tick /\ ServerFrame
  \/ \E s \in Slots, body \in {b \in MoodRequests : ValidMood(NewMood(b))} :
       MoodSet(s, body) /\ ServerFrame
  \/ \E s \in Slots : MoodSave(s, TRUE, TRUE) /\ ServerFrame
  \/ \E s \in Slots : MoodFind(s, TRUE) /\ ServerFrame
  \/ MoodCurrent(TRUE) /\ ServerFrame
  \/ \E limitStr \in LimitInputs : MoodHistory(limitStr, TRUE) /\ ServerFrame
  \/ MoodHistory(NoLimit, FALSE) /\ ServerFrame

SpecHistory == Init /\ [][NextHistory]_vars

\* The page, alone with the server.
SpecClient == Init /\ [][NextClient]_vars

\* getTimeAgo: the log holds one event, written at 0, and the current mood is
\* read when the event is any whole number of seconds old.
InitTimeAgo ==
  /\ store = {}
  /\ moods = <<[mood |-> "happy", emoji |-> "E1", timestamp |-> 0, userId |-> "girlfriend"]>>
  /\ clock \in {1000 * d : d \in 0..MaxAgeSeconds}
  /\ emitted = <<>>
  /\ req = [s \in Slots |-> IdleReq]
  /\ issued = 0
  /\ response = NoResponse
  /\ client = NewPage
  /\ sw = NewWorker

NextTimeAgo == MoodCurrent(TRUE) /\ ServerFrame

SpecTimeAgo == InitTimeAgo /\ [][NextTimeAgo]_vars

\* ================================================================== claims
Tasks(s) == DOMAIN req[s].task
FailedTasks(s) == {x \in Tasks(s) : req[s].task[x].code \notin {0, 201}}
GoneTasks(s) == {x \in Tasks(s) : req[s].task[x].code \in {404, 410}}
Settled(s) == \A x \in Tasks(s) : req[s].task[x].st \in {"fulfilled", "rejected"}

\* C1: when sendNotificationToAll returns its results for N subscriptions of
\* which K deliveries found the endpoint gone (404 or 410), successful +
\* failed = N with every delivery in the tally it belongs to, errors holds
\* one entry per failed delivery, and the deleteOne of exactly those K has
\* succeeded and left the store without a document of the endpoint.
C1_TallyAndPruneAtReturn ==
  \A s \in Slots :
    req[s].disp = "returned" =>
      LET res == req[s].results
      IN /\ res.successful + res.failed = Cardinality(Tasks(s))
         /\ res.failed = Cardinality(FailedTasks(s))
         /\ Len(res.errors) = Cardinality(FailedTasks(s))
         /\ {res.errors[i].endpoint : i \in 1..Len(res.errors)}
              = {x.endpoint : x \in FailedTasks(s)}
         /\ \A x \in Tasks(s) :
              req[s].task[x].pruned = IF x \in GoneTasks(s) THEN "absent" ELSE "no"

C1_Witness ==
  \E s \in Slots :
    /\ req[s].disp = "returned"
    /\ Cardinality(Tasks(s)) = 2
    /\ Cardinality(GoneTasks(s)) = 1
    /\ req[s].results.successful = 1
    /\ \A x \in GoneTasks(s) : Matching(store, x.endpoint) = {}

\* C2: sendNotificationToAll never rejects to its caller, whatever the
\* deliveries and the pruning writes do.
C2_NeverRejects == \A s \in Slots : req[s].disp # "rejected"

\* C3: when sendNotificationToAll hands its outcome to the caller, every
\* delivery task of the dispatch, pruning included, has reached its outcome.
C3_CompletesAfterAllTasks ==
  \A s \in Slots : req[s].disp \in {"returned", "rejected"} => Settled(s)

\* C4: every delivery of a dispatch is started when the dispatch starts, a
\* delivery still out can settle with any outcome whatever the state of the
\* other deliveries (failed, rejected, or out forever), and every delivery
\* that has settled is in the tally.
C4_DeliveriesIndependent ==
  \A s \in Slots :
    /\ \A x \in Tasks(s) :
         /\ req[s].task[x].st \in {"sending", "deleting", "fulfilled", "rejected"}
         /\ req[s].task[x].st = "sending" =>
              \A code \in DeliveryCodes : ENABLED SendSettles(s, x, code)
    /\ req[s].results.successful
         = Cardinality({x \in Tasks(s) : req[s].task[x].code = 201})
    /\ req[s].results.failed = Cardinality(FailedTasks(s))

\* One delivery's pruning write has rejected (and with it the dispatch), and a
\* delivery that failed after it is in the tally, second in errors.
C4_Witness ==
  \E s \in Slots :
    /\ req[s].disp = "rejected"
    /\ Len(req[s].results.errors) = 2
    /\ \E x \in Tasks(s) :
         /\ x.endpoint = req[s].results.errors[1].endpoint
         /\ req[s].task[x].st = "rejected"
    /\ req[s].results.errors[2].error = 500
    /\ req[s].results.failed = 2

\* C5: a delivery that failed with a status other than 404 and 410 is counted
\* in failed and listed in errors, and the dispatch deletes nothing for it: a
\* step of a request in flight changes the store only by taking out the
\* document of the endpoint of a delivery that settled with 404 or 410.
C5_TransientState ==
  \A s \in Slots : \A x \in Tasks(s) :
    req[s].task[x].code \notin {0, 404, 410} =>
      /\ req[s].task[x].st = "fulfilled"
      /\ req[s].task[x].pruned = "no"
      /\ req[s].task[x].code = 500 =>
           \E i \in 1..Len(req[s].results.errors) :
             req[s].results.errors[i] = [endpoint |-> x.endpoint, error |-> 500]

C5_TransientKeepsSubscription ==
  [][/\ C5_TransientState'
     /\ (req' # req /\ store' # store) =>
          \E s \in Slots : \E x \in Tasks(s) :
            /\ req[s].task[x].code \in {404, 410}
            /\ req[s].task[x].st = "deleting" /\ req'[s].task[x].st = "fulfilled"
            /\ store' \subseteq store
            /\ \A y \in store \ store' : y.endpoint = x.endpoint]_vars

C5_Witness ==
  \E s \in Slots : \E x \in Tasks(s) :
    /\ req[s].disp = "returned"
    /\ req[s].task[x].code = 500
    /\ req[s].results.failed = 1
    /\ x \in store

UniqueEndpoints(s) == \A r1, r2 \in s : r1.endpoint = r2.endpoint => r1 = r2
Others(s, endpoint) == {r \in s : r.endpoint # endpoint}

\* C6: the store never holds two documents of one endpoint, under every
\* interleaving of subscribe, unsubscribe and the pruning of a dispatch; a
\* subscribe to a stored endpoint leaves the number of documents as it was
\* (to a new endpoint: one more), leaves the documents of the other endpoints
\* alone, and the endpoint's document then carries the owner of the request
\* and the keys the request brought.
C6_OneRecordPerEndpoint ==
  [][/\ UniqueEndpoints(store')
     /\ \A body \in StoreBodies : \A strip \in BOOLEAN :
          body.endpoint # Undefined /\ Subscribe(body, TRUE, strip) =>
            /\ Cardinality(store') =
                 IF Matching(store, body.endpoint) = {}
                 THEN Cardinality(store) + 1 ELSE Cardinality(store)
            /\ Others(store', body.endpoint) = Others(store, body.endpoint)
            /\ \E r \in store' :
                 /\ r.endpoint = body.endpoint
                 /\ r.userId = IF body.userId = Undefined THEN "default" ELSE body.userId
                 /\ body.keys # Undefined => r.keys = body.keys]_vars

\* A dispatch still holds the document it read, and the store holds, alone,
\* the document a later subscribe to the same endpoint overwrote it with.
C6_Witness ==
  /\ response.op = "subscribe" /\ response.status = 200
  /\ store = {[endpoint |-> "e1", keys |-> "k2", userId |-> "u1"]}
  /\ \E x \in Tasks(1) :
       /\ x = [endpoint |-> "e1", keys |-> "k1", userId |-> "default"]
       /\ req[1].task[x].st = "sending"

\* C7: a subscribe whose body lacks endpoint or keys is answered 400 with
\* success false and leaves the store as it was; no document without keys is
\* ever stored.
C7_RejectsIncompleteSubscription ==
  [][/\ \A r \in store' : r.keys # Undefined
     /\ \A body \in StoreBodies : \A strip \in BOOLEAN :
          (body.endpoint = Undefined \/ body.keys = Undefined)
            /\ Subscribe(body, TRUE, strip) =>
              /\ response'.status = 400
              /\ ~response'.success
              /\ store' = store]_vars

\* C8: an unsubscribe with an endpoint, the storage answering, succeeds
\* whether or not a document of the endpoint is stored; after it none is, the
\* documents of the other endpoints are as they were, and a second
\* unsubscribe would change nothing.
C8_UnsubscribeRemoves ==
  [][\A endpoint \in Endpoints :
       Unsubscribe(endpoint, TRUE) =>
         /\ response'.op = "unsubscribe"
         /\ response'.status = 200 /\ response'.success
         /\ Matching(store', endpoint) = {}
         /\ Others(store', endpoint) = Others(store, endpoint)
         /\ DeleteOne(store', endpoint) = store']_vars

C8_Witness ==
  /\ response.op = "unsubscribe" /\ response.success
  /\ Cardinality(store) = 1
  /\ Matching(store, "e1") = {}
  /\ req[1].pc = "dispatching" /\ \E x \in Tasks(1) : x.endpoint = "e1"

ValidRequest(doc) == doc.mood \in MoodEnum /\ doc.emoji # Undefined

\* C9: a mood write whose mood is outside the nine-value enum, or whose emoji
\* is empty, is answered 400, and its event is not persisted.
C9_InvalidMoodIs400 ==
  \A s \in Slots :
    req[s].kind = "mood" /\ req[s].pc = "done" /\ ~ValidRequest(req[s].doc) =>
      req[s].status = 400 /\ ~req[s].saved

LastWritten == moods[Len(moods)]

C11_SideEffectsIndependent ==
  \A s \in Slots :
    req[s].kind = "mood" /\ req[s].saved =>
      /\ req[s].emit = "threw" => req[s].notified
      /\ req[s].disp = "rejected" =>
           /\ req[s].emit = "sent"
           /\ \E i \in 1..Len(emitted) : emitted[i] = MoodData(req[s].doc)
      /\ req[s].pc = "done" => req[s].status = 200

\* C12: the mood log only grows: a step leaves every stored event where and
\* as it was (mood, emoji, timestamp, owner), and changes the log only by
\* appending the one event of a POST /api/mood/set whose save settles.
C12_LogAppendOnly ==
  [][/\ Len(moods') >= Len(moods)
     /\ \A i \in 1..Len(moods) : moods'[i] = moods[i]
     /\ moods' # moods =>
          \E s \in Slots :
            /\ req[s].kind = "mood" /\ req[s].pc = "saving" /\ req'[s].saved
            /\ Len(moods') = Len(moods) + 1
            /\ moods'[Len(moods')] = req[s].doc
            /\ req[s].doc.userId = "girlfriend"]_vars

\* The log holds the events of two writes, both answered 200, and the
\* history has been read since the second.
C12_Witness ==
  /\ Len(moods) = 2
  /\ \A s \in Slots : req[s].pc = "done" /\ req[s].status = 200
  /\ req[1].doc = moods[1] /\ req[2].doc = moods[2]
  /\ response.op = "history" /\ Len(response.history) = 2

Min(a, b) == IF a < b THEN a ELSE b

\* A limit that is a decimal number, digits only.
IsNumber(str) ==
  /\ str # <<>>
  /\ \A i \in 1..Len(str) : IsDigit(str[i])

\* The response's moods are `count` of the stored events, most recent first,
\* and no event left out is more recent than one returned.
MostRecentFirst(history, log, count) ==
  /\ Len(history) = count
  /\ \A i, j \in 1..Len(history) :
       i < j => history[i].timestamp >= history[j].timestamp
  /\ \E p \in [1..Len(history) -> 1..Len(log)] :
       /\ \A i, j \in 1..Len(history) : i # j => p[i] # p[j]
       /\ \A i \in 1..Len(history) :
            /\ history[i].mood = log[p[i]].mood
            /\ history[i].emoji = log[p[i]].emoji
            /\ history[i].timestamp = log[p[i]].timestamp
       /\ \A k \in 1..Len(log) :
            (\A i \in 1..Len(history) : p[i] # k) =>
              \A i \in 1..Len(history) : log[k].timestamp <= history[i].timestamp

AgeSeconds == clock \div 1000

\* N units ago, the unit in the singular exactly when N is 1.
Units(n, singular, plural) == [n |-> n, unit |-> IF n = 1 THEN singular ELSE plural]

\* C14: for an event d whole seconds old getTimeAgo returns 'Just now' when
\* d < 60, floor(d / 60) minutes when d < 3600, floor(d / 3600) hours when
\* d < 86400 and floor(d / 86400) days otherwise, the unit in the singular
\* exactly when the number is 1: 'Just now' at 0, '1 minute ago' at 90,
\* '1 hour ago' at 3661, '1 day ago' at 90000.
C14_TimeAgoBuckets ==
  response.op = "current" =>
    /\ response.timeAgo =
         IF AgeSeconds < 60 THEN [n |-> 0, unit |-> "Just now"]
         ELSE IF AgeSeconds < 3600 THEN Units(AgeSeconds \div 60, "minute", "minutes")
         ELSE IF AgeSeconds < 86400 THEN Units(AgeSeconds \div 3600, "hour", "hours")
         ELSE Units(AgeSeconds \div 86400, "day", "days")
    /\ AgeSeconds = 0 => response.timeAgo.unit = "Just now"
    /\ AgeSeconds = 90 => response.timeAgo = [n |-> 1, unit |-> "minute"]
    /\ AgeSeconds = 3661 => response.timeAgo = [n |-> 1, unit |-> "hour"]
    /\ AgeSeconds = 90000 => response.timeAgo = [n |-> 1, unit |-> "day"]

\* The current mood has been read with the event two days less a second old.
C14_Witness ==
  /\ AgeSeconds = 172799
  /\ response.op = "current"
  /\ response.timeAgo = [n |-> 1, unit |-> "day"]

\* C15, as claimed: when subscribe() returns false, the manager's
\* subscription, the browser's push subscription and the controls shown are
\* what they were when it was called, and the subscribe control is enabled.
C15_FailedSubscribeChangesNothing ==
  client.op = "subscribe" /\ client.pc = "idle" /\ client.result = "false" =>
    /\ client.subscription = client.prior.subscription
    /\ client.pushSubscription = client.prior.pushSubscription
    /\ client.ui = client.prior.ui
    /\ ~client.subscribeDisabled

\* C16, as claimed: unsubscribe() sends its POST /api/unsubscribe only after
\* subscription.unsubscribe() has answered true, and once it has returned
\* after that answer the manager holds no subscription and the controls are
\* those of the unsubscribed state.
C16_UnsubscribeLocalFirst ==
  client.op = "unsubscribe" =>
    /\ client.removal => client.cancelled = "true"
    /\ client.cancelled = "true" /\ client.pc = "idle" =>
         ~isSubscribed(client) /\ client.ui = "unsubscribed"

\* C17, as claimed: no event of the worker is handled while work its
\* listener started is pending.
C17_LifetimeCoversWork ==
  \A t \in EventTypes : sw.ev[t].phase = "handled" => sw.ev[t].pending = {}

\* C18, as claimed: once activate is handled, of the buckets there were when
\* it was dispatched only the one named CACHE_NAME is left, and clients.claim()
\* takes effect only after the purge has completed.
C18_PurgeThenClaim ==
  /\ sw.ev["activate"].phase = "handled" =>
       /\ \A n \in sw.before : n # CACHE_NAME => n \notin DOMAIN sw.caches
       /\ CACHE_NAME \in sw.before => CACHE_NAME \in DOMAIN sw.caches
  /\ sw.claimed => sw.claimedPurged

\* The URL a click on the notification of the notificationclick event leads
\* to: its data.url, or the root.
TargetUrl ==
  IF sw.click.url = Undefined THEN "https://mood.app/" ELSE "https://mood.app" \o sw.click.url

\* C19: every notificationclick closes its notification; for the action
\* 'close' the event is over with no window focused or opened; for any other
\* action, once clients.matchAll has resolved, exactly one call has been made:
\* focus() of a window whose URL is the target URL, or, no open window being
\* at the target URL, openWindow at the target URL.
C19_ClickFocusesOrOpens ==
  LET e == sw.ev["notificationclick"]
      c == sw.click
  IN e.phase # "none" =>
       /\ c.closed
       /\ c.action = "close" =>
            e.phase = "handled" /\ e.pending = {} /\ c.focused = <<>> /\ c.opened = <<>>
       /\ c.action # "close" =>
            IF "matchAll" \in e.pending
            THEN c.focused = <<>> /\ c.opened = <<>>
            ELSE /\ Len(c.focused) + Len(c.opened) = 1
                 /\ c.focused # <<>> =>
                      /\ c.focused[1] \in DOMAIN sw.windows
                      /\ sw.windows[c.focused[1]] = TargetUrl
                 /\ c.opened # <<>> =>
                      /\ "https://mood.app" \o c.opened[1] = TargetUrl
                      /\ \A i \in 1..(Len(sw.windows) - 1) : sw.windows[i] # TargetUrl
                      /\ "open" \in e.pending =>
                           \A i \in DOMAIN sw.windows : sw.windows[i] # TargetUrl

\* A click on the body of a notification leading to the root, with the
\* history and the app, twice, open: the first window of the app is focused.
C19_Witness ==
  /\ sw.ev["notificationclick"].phase = "handled"
  /\ sw.click.action = "" /\ sw.click.url = "/"
  /\ Len(sw.windows) = 3
  /\ sw.click.focused = <<2>> /\ sw.click.opened = <<>>

\* What C20 says of a push event but for the body of a text that does not
\* parse: one showNotification call with the actions 'view' and 'close', which
\* the event waits for; with no payload the defaults; with a payload that
\* parses every property it has in the place of the default.
OneNotification ==
  LET d == sw.data
      n == sw.rendered[1]
  IN /\ Len(sw.rendered) = 1
     /\ n.actions = <<"view", "close">>
     /\ sw.ev["push"].phase = "running" <=> "show" \in sw.ev["push"].pending
     /\ ~d.present =>
          /\ n.title = "Mood Tracker" /\ n.body = "Time to update your mood!"
          /\ n.icon = "/icon-192x192.png" /\ n.tag = "mood-update"
     /\ d.present /\ d.parses =>
          /\ n.title = IF "title" \in d.json.has THEN d.json.val.title ELSE "Mood Tracker"
          /\ n.body = IF "body" \in d.json.has THEN d.json.val.body
                       ELSE "Time to update your mood!"
          /\ n.icon = IF "icon" \in d.json.has THEN d.json.val.icon ELSE "/icon-192x192.png"
          /\ n.tag = IF "tag" \in d.json.has THEN d.json.val.tag ELSE "mood-update"
          /\ "data" \in d.json.has => n.data = d.json.val.data
     /\ d.present /\ ~d.parses =>
          n.title = "Mood Tracker" /\ n.icon = "/icon-192x192.png" /\ n.tag = "mood-update"

\* C20, as claimed: of a payload that does not parse, the text is the body.
C20_TextBecomesBody ==
  sw.ev["push"].phase # "none" =>
    /\ OneNotification
    /\ sw.data.present /\ ~sw.data.parses => sw.rendered[1].body = sw.data.text

\* C20, amended: of a payload that does not parse, the text is the body
\* unless it is empty, and then the body is the default.
C20_TextBecomesBodyUnlessEmpty ==
  sw.ev["push"].phase # "none" =>
    /\ OneNotification
    /\ sw.data.present /\ ~sw.data.parses =>
         sw.rendered[1].body =
           IF sw.data.text = "" THEN "Time to update your mood!" ELSE sw.data.text

\* The notification of a payload with a body and a URL only is on display:
\* title, icon and tag are the defaults.
C20_Witness ==
  /\ sw.ev["push"].phase = "handled"
  /\ sw.data.present /\ sw.data.json.has = {"body", "data"}
  /\ sw.rendered[1].body = "See the history" /\ sw.rendered[1].title = "Mood Tracker"
  /\ sw.rendered[1].data.url = "/history"
  /\ sw.rendered[1] \in sw.displayed

\* The states of ServiceWorker.state in their order; a worker that waits is
\* 'installed', one that is active is 'activated'.
LifecycleOrder == <<"parsed", "installing", "installed", "activating", "activated">>

Rank(state) == CHOOSE i \in DOMAIN LifecycleOrder : LifecycleOrder[i] = state

\* C21: the state of the worker stays or moves to the next of installing,
\* installed (waiting), activating, activated (active); the pre-caching of
\* install that fails leaves the worker installed like the one that succeeds;
\* the activate listener has run only when the pre-caching of install has
\* settled and the install event is handled; and, the promises settling, an
\* installing worker is eventually activated.
C21_LifecycleForward ==
  /\ [][/\ sw.state \in {LifecycleOrder[i] : i \in DOMAIN LifecycleOrder}
        /\ Rank(sw'.state) \in {Rank(sw.state), Rank(sw.state) + 1}]_vars
  /\ [][(\E outcome \in {"openFailed", "addAllFailed"} : PrecacheSettles(outcome)) =>
          sw.state = "installing" /\ sw'.state = "installed"]_vars
  /\ [](sw.ev["activate"].phase # "none" =>
          /\ "precache" \notin sw.ev["install"].pending
          /\ sw.ev["install"].phase = "handled"
          /\ Rank(sw.state) >= Rank("activating"))
  /\ (sw.state = "installing") ~> (sw.state = "activated")

\* The worker whose caches.open was rejected at install is activated, and
\* Cache Storage has no bucket of this version.
C21_Witness ==
  /\ sw.state = "activated"
  /\ sw.ev["install"].phase = "handled"
  /\ CACHE_NAME \notin DOMAIN sw.caches

\* The requests whose io.emit returns in this step.
Broadcasting == {s \in Slots : req[s].emit # "sent" /\ req'[s].emit = "sent"}

\* C22: 'mood-updated' is emitted in the step of a POST /api/mood/set whose
\* io.emit returns and in no other, once, with an event that is in the log;
\* a request that is answered is answered 200 exactly when it has emitted; a
\* push dispatch runs only for a request that has emitted; and a request whose
\* event is not persisted (validation or storage failed) has emitted nothing,
\* has not called sendMoodUpdateNotification and has no delivery.
C22_BroadcastAfterPersist ==
  /\ [][/\ Cardinality(Broadcasting) <= 1
        /\ Broadcasting = {} => emitted' = emitted
        /\ \A s \in Broadcasting :
             /\ emitted' = Append(emitted, MoodData(req'[s].doc))
             /\ req[s].kind = "mood" /\ req[s].task = <<>> /\ req[s].disp = "none"
             /\ \E i \in DOMAIN moods' : moods'[i] = req'[s].doc]_vars
  /\ [](\A s \in Slots : req[s].kind = "mood" =>
          /\ req[s].pc = "done" => (req[s].status = 200 <=> req[s].emit = "sent")
          /\ req[s].notified \/ req[s].task # <<>> \/ req[s].disp # "none" =>
               req[s].emit = "sent"
          /\ req[s].emit = "sent" => req[s].saved
          /\ req[s].pc = "done" /\ ~req[s].saved =>
               /\ req[s].status \in {400, 500}
               /\ req[s].emit = "none" /\ ~req[s].notified
               /\ req[s].task = <<>> /\ req[s].disp = "none")

\* One write was persisted, emitted and dispatched to the subscriber, and
\* answered 200; the other failed at save() and was answered 500.
C22_Witness ==
  \E s \in Slots, q \in Slots :
    /\ req[s].kind = "mood" /\ req[s].status = 200 /\ req[s].disp = "returned"
    /\ req[s].task # <<>>
    /\ req[q].kind = "mood" /\ req[q].status = 500 /\ ~req[q].saved
    /\ emitted = <<MoodData(req[s].doc)>>

\* C23: under every interleaving of a dispatch with POST /api/subscribe, a
\* step of a request in flight takes out of the store only a document its
\* dispatch read, of a delivery that settled with 404 or 410: the document a
\* subscribe has written for that endpoint since the dispatch read the store
\* is never the one removed, and is stored when the dispatch returns.
C23_PruneKeepsNewerRegistration ==
  [][(req' # req /\ store' # store) =>
       \E s \in Slots : \E x \in Tasks(s) :
         /\ req[s].task[x].code \in {404, 410}
         /\ req[s].task[x].st = "deleting" /\ req'[s].task[x].st = "fulfilled"
         /\ store' \subseteq store
         /\ store \ store' \subseteq {x}]_vars

\* C24: when subscribe() has returned true the store holds a document of the
\* endpoint of the manager's subscription; in the step in which unsubscribe()
\* returns true the store is left without a document of the endpoint it
\* unsubscribed; and whenever the manager of a loaded page at rest holds no
\* subscription (isSubscribed() is false) the registration has none either.
C24_ClientAgreesWithStore ==
  /\ [](client.op = "subscribe" /\ client.pc = "idle" /\ client.result = "true" =>
          Matching(store, client.subscription) # {})
  /\ [][client.op = "unsubscribe" /\ client.pc # "idle" /\ client'.pc = "idle"
          /\ client'.result = "true" =>
            Matching(store', client.subscription) = {}]_vars
  /\ [](client.loaded /\ client.pc = "idle" /\ ~isSubscribed(client) =>
          client.pushSubscription = Null)

====
